---- MODULE Spec2Model ----
(***************************************************************************)
(* The tiered blob store of src/db/file.rs: the table `files` of the       *)
(* relational backend, the bucket "rust-docs-rs" of the object storage,    *)
(* the ingestion of a file tree (add_path_into_database), the retrieval of *)
(* one key (get_path) and the batch migration of inline rows to the        *)
(* bucket (move_to_s3).                                                    *)
(*                                                                         *)
(* Every statement sent to the relational backend and every request sent   *)
(* to the object storage is one step, so that runs on different            *)
(* connections interleave statement by statement.  The backend runs at     *)
(* its default isolation level (read committed): a statement sees the      *)
(* committed table and the writes of its own transaction, a write waits    *)
(* for the transaction that holds the row, and the writes of a             *)
(* transaction reach the table at its commit or are dropped with it.       *)
(*                                                                         *)
(* get_path is an operator of the state: evaluated in a state, it is the   *)
(* answer a call made at that moment gets.                                 *)
(*                                                                         *)
(* Spec runs every operation at once.  SpecSeq runs one operation at a     *)
(* time under one prefix, and each run keeps the table and the bucket it   *)
(* began with, so that what it left can be compared with what it found.    *)
(* SpecIngest runs two ingestions at once, one on each connection, over a  *)
(* store that an earlier run may have written.  SpecRace runs one          *)
(* ingestion and one batch of the migration at once over such a store.     *)
(* SpecMove runs batch after batch of the migration, none of them failing, *)
(* over a store of inline rows.                                            *)
(*                                                                         *)
(* The functions of no state are called on their own: SpecClassify         *)
(* computes the stored mime of one sniffed type and one extension,         *)
(* SpecList enumerates one path of one filesystem tree (get_file_list).    *)
(***************************************************************************)
EXTENDS Integers, Sequences, FiniteSets, TLC

\* ------------------------------------------------------------------------
\* Bounds of the model

\* ingestion runs begun in one behaviour (each one takes a new timestamp)
MaxRuns == 2
\* greatest batch size n handed to move_to_s3
MaxBatch == 2
\* greatest number of entries of a filesystem tree handed to get_file_list
MaxEntries == 4

\* ------------------------------------------------------------------------
\* Values

\* the two connections that run add_path_into_database
Runs == {"r1", "r2"}

\* key prefixes and relative paths, as sequences of path components
Prefixes == {<<"a">>, <<"b">>}
RelPaths == {<<"x.css">>, <<"y">>}

\* file contents: empty, the very bytes of the marker, some markup
Bytes == {"", "in-s3", "<p>"}

\* the sentinel written to the content column of an offloaded row
Marker == "in-s3"

\* the empty table, the empty bucket
Empty == [k \in {} |-> {}]

\* the file lists get_file_list can hand to one run: every order of every
\* set of relative paths
RECURSIVE Orders(_)
Orders(S) ==
    IF S = {} THEN {<<>>}
    ELSE UNION {{<<x>> \o t : t \in Orders(S \ {x})} : x \in S}

get_file_list == UNION {Orders(S) : S \in SUBSET RelPaths}

\* A filesystem tree: the kind of every entry, by its path from the top.
\* An entry is a regular file, a directory, a directory that cannot be read
\* (read_dir fails on it), or something else (a socket, a fifo, a device).
\* The entries of a directory come in the order the filesystem keeps.
Names == {"f", "g"}
Kinds == {"file", "dir", "unreadable", "special"}

IsDir(fs, path) == path \in DOMAIN fs /\ fs[path] \in {"dir", "unreadable"}

\* the paths at which a tree can get one more entry
Slots(fs) ==
    ({<<x>> : x \in Names}
        \cup {Append(d, x) : d \in {p \in DOMAIN fs : IsDir(fs, p)}, x \in Names})
    \ DOMAIN fs

\* the trees of at most n entries
RECURSIVE Trees(_)
Trees(n) ==
    IF n = 0 THEN {Empty}
    ELSE LET T == Trees(n - 1)
         IN  T \cup UNION {{(p :> k) @@ fs : p \in Slots(fs), k \in Kinds} : fs \in T}

Ok(files) == [ok |-> TRUE, files |-> files]
Err(e) == [ok |-> FALSE, err |-> e]

\* path.read_dir(): the names of the entries of a directory, in order
read_dir(fs, order, path) ==
    SelectSeq(order, LAMBDA x : Append(path, x) \in DOMAIN fs)

\* file_path.strip_prefix(path): the components after those of the prefix
strip_prefix_kept(file_path, path) == file_path
strip_prefix(file_path, path) == SubSeq(file_path, Len(path) + 1, Len(file_path))

\* get_file_list_from_dir(path, files): the regular files of the directory
\* are pushed with their whole path, its directories are walked in turn,
\* its other entries are passed over; the first read_dir that fails ends
\* the walk with its error
RECURSIVE get_file_list_from_dir(_, _, _, _), get_file_list_from_entries(_, _, _, _, _)
get_file_list_from_entries(fs, order, path, entries, files) ==
    IF entries = <<>> THEN Ok(files)
    ELSE LET file == Append(path, Head(entries))
         IN  IF fs[file] = "file"
             THEN get_file_list_from_entries(fs, order, path, Tail(entries),
                                             Append(files, file))
             ELSE IF IsDir(fs, file)
             THEN LET below == get_file_list_from_dir(fs, order, file, files)
                  IN  IF below.ok
                      THEN get_file_list_from_entries(fs, order, path,
                                                      Tail(entries), below.files)
                      ELSE below
             ELSE get_file_list_from_entries(fs, order, path, Tail(entries), files)
get_file_list_from_dir(fs, order, path, files) ==
    IF fs[path] = "unreadable" THEN Err("read_dir")
    ELSE get_file_list_from_entries(fs, order, path, read_dir(fs, order, path), files)

\* get_file_list(path) in the tree fs
get_file_list_in(fs, order, path) ==
    IF path \notin DOMAIN fs THEN Err("File not found")
    ELSE IF fs[path] = "file" THEN Ok(<<<<path[Len(path)]>>>>)
    ELSE IF IsDir(fs, path)
    THEN LET walked == get_file_list_from_dir(fs, order, path, <<>>)
         IN  IF walked.ok
             THEN Ok([i \in 1..Len(walked.files) |->
                        strip_prefix(walked.files[i], path)])
             ELSE walked
    ELSE Ok(<<>>)

\* Path::new(prefix).join(&file_path): the components of the prefix, then
\* those of the relative path
JoinWithoutPrefix(prefix, file_path) == file_path
Join(prefix, file_path) == prefix \o file_path

Keys == {Join(p, f) : p \in Prefixes, f \in RelPaths}

\* whether key k lies under prefix p
HasPrefix(k, p) == Len(k) >= Len(p) /\ SubSeq(k, 1, Len(p)) = p

\* file_path.extension().unwrap_or_default(): the part of the file name
\* after its last dot, none when it has no dot
extension(file_path) ==
    LET name == file_path[Len(file_path)]
    IN  CASE name = "x.css" -> "css"
          [] name = "z.js"  -> "js"
          [] OTHER          -> ""

\* cookie.buffer(&content): the type libmagic sniffs from the bytes alone
magic_buffer(content) ==
    CASE content = ""    -> "application/x-empty"
      [] content = "<p>" -> "text/html"
      [] OTHER           -> "text/plain"

\* the mime stored for a file whose bytes sniff as mime and whose name has
\* extension e ("" when it has none): css and js files that sniff as plain
\* text get their own type, every other file keeps the sniffed type
classify_by_extension(mime, e) ==
    IF e = "css" THEN "text/css"
    ELSE IF e = "js" THEN "application/javascript"
    ELSE mime
classify(mime, e) ==
    IF mime = "text/plain"
    THEN IF e = "css" THEN "text/css"
         ELSE IF e = "js" THEN "application/javascript"
         ELSE mime
    ELSE mime

\* the mime stored for a file, from its bytes and its path
mime_of(content, file_path) ==
    classify(magic_buffer(content), extension(file_path))

\* types the sniffer returns, and extensions of file names ("" for none)
SniffedTypes ==
    {"text/plain", "text/html", "text/css", "text/x-c", "application/x-empty",
     "application/javascript", "application/octet-stream", "image/png"}
Extensions == {"", "css", "js", "CSS", "JS", "html", "txt"}

\* s3_client(): a client when AWS_ACCESS_KEY_ID is set, none otherwise;
\* read from the environment at every call
s3_client(aws_key) == aws_key

\* ------------------------------------------------------------------------
\* State

VARIABLES
    files,      \* committed rows of table files: key -> [mime, date_updated, content]
    bucket,     \* objects of bucket rust-docs-rs: key -> bytes
    env,        \* whether AWS_ACCESS_KEY_ID is set in the environment
    now,        \* the clock of the relational backend
    ing,        \* the run of add_path_into_database on each connection
    mig,        \* the run of move_to_s3
    call        \* a call of a function of no state: its arguments and its result

vars == <<files, bucket, env, now, ing, mig, call>>

NoFile == [path |-> <<>>, file_path |-> <<>>, mime |-> "", content |-> <<>>]
NoSnap == [files |-> Empty, bucket |-> Empty]

IdleRun ==
    [pc |-> "idle", prefix |-> <<>>, client |-> FALSE, file_list |-> <<>>,
     todo |-> <<>>,
     cur |-> NoFile, count |-> 0, staged |-> Empty, body |-> Empty,
     file_list_with_mimes |-> <<>>, skipped |-> {}, started |-> 0,
     err |-> "", ret |-> <<>>, pre |-> NoSnap]

IdleMove ==
    [pc |-> "idle", n |-> 0, rows |-> {}, sent |-> {}, marked |-> {},
     err |-> "", pre |-> NoSnap]

\* no function of no state is being called
NoCall == [pc |-> "none"]

Init ==
    /\ files = Empty
    /\ bucket = Empty
    /\ env \in BOOLEAN
    /\ now = 0
    /\ ing = [r \in Runs |-> IdleRun]
    /\ mig = IdleMove
    /\ call = NoCall

\* a connection is inside its transaction
InTxn(run) == run.pc \in {"file", "count", "write"}

AllIdle == mig.pc = "idle" /\ \A r \in Runs : ing[r].pc = "idle"

\* row k is held by an open transaction other than that of run r
LockedByOther(r, k) ==
    \/ \E o \in Runs \ {r} : InTxn(ing[o]) /\ k \in DOMAIN ing[o].staged
    \/ mig.pc = "run" /\ k \in mig.marked

\* ------------------------------------------------------------------------
\* get_path

None == [kind |-> "none"]
Panic == [kind |-> "panic"]
Blob(path, mime, date_updated, content) ==
    [kind |-> "blob", path |-> path, mime |-> mime,
     date_updated |-> date_updated, content |-> content]

\* c.get_object(...).sync().ok().and_then(|r| r.body), read to its end: the
\* bytes of the object under the key, or nothing when the request fails
\* (reachable is false) or the bucket has no such object
get_object_unchecked(s3, reachable, key) ==
    IF key \in DOMAIN s3 THEN <<s3[key]>> ELSE <<>>
get_object(s3, reachable, key) ==
    IF reachable /\ key \in DOMAIN s3 THEN <<s3[key]>> ELSE <<>>

\* get_path(conn, path) against table db and bucket s3, in an environment
\* where AWS_ACCESS_KEY_ID is set or not and the bucket can be reached or
\* not: none without a row, the row's content when it is not the marker,
\* the object's bytes when it is, and a panic (unwrap of nothing) when the
\* content is the marker and there is no client or no bytes
get_path_from(db, s3, aws_key, reachable, path) ==
    IF path \notin DOMAIN db THEN None
    ELSE LET row == db[path]
             content == IF s3_client(aws_key)
                        THEN get_object(s3, reachable, path)
                        ELSE <<>>
         IN  IF row.content = Marker
             THEN IF content # <<>>
                  THEN Blob(path, row.mime, row.date_updated, content[1])
                  ELSE Panic
             ELSE Blob(path, row.mime, row.date_updated, row.content)

\* get_path when the bucket can be reached
get_path(db, s3, aws_key, path) == get_path_from(db, s3, aws_key, TRUE, path)

\* client.put_object(...) that succeeds: the object under the key is now
\* the body (its content type is kept by the bucket and never read back)
put_object_lost(s3, key, body) == s3
put_object(s3, key, body) == (key :> body) @@ s3

\* ------------------------------------------------------------------------
\* The environment

\* AWS_ACCESS_KEY_ID is set or removed between any two steps
SetEnv ==
    /\ env' = ~env
    /\ UNCHANGED <<files, bucket, now, ing, mig, call>>

\* ------------------------------------------------------------------------
\* add_path_into_database, on connection r

\* the run ends with an error or a panic: its transaction is dropped, and
\* with it every write it staged
Abort(run, e) ==
    [IdleRun EXCEPT !.pc = "aborted", !.err = e, !.prefix = run.prefix,
                    !.client = run.client, !.started = run.started,
                    !.pre = run.pre]

\* file_list_to_json: one [mime, path] array per file, in list order
file_list_to_json_path_first(file_list) ==
    [i \in 1..Len(file_list) |-> <<file_list[i][2], file_list[i][1]>>]
file_list_to_json(file_list) ==
    [i \in 1..Len(file_list) |-> <<file_list[i][1], file_list[i][2]>>]

\* the transaction begins, the client is looked up and the tree is listed;
\* snap tells whether the run keeps the table and the bucket it started from
add_path_begin(r, snap, prefixes) ==
    /\ ing[r].pc = "idle"
    /\ now < MaxRuns
    /\ \E prefix \in prefixes :
         LET run == [IdleRun EXCEPT
                       !.prefix = prefix, !.client = s3_client(env),
                       !.started = now + 1,
                       !.pre = IF snap
                               THEN [files |-> files, bucket |-> bucket]
                               ELSE NoSnap]
         IN  \/ \E file_list \in get_file_list :
                  ing' = [ing EXCEPT ![r] =
                            [run EXCEPT !.pc = "file", !.file_list = file_list,
                                        !.todo = file_list]]
             \/ \* the path does not exist, or the cookie or the
                \* transaction cannot be opened
                ing' = [ing EXCEPT ![r] = Abort(run, "setup")]
    /\ now' = now + 1
    /\ UNCHANGED <<files, bucket, env, mig, call>>

\* the next file of the list is opened, read (its bytes are one of
\* contents), classified and, with a client, uploaded
add_path_file(r, contents) ==
    LET run       == ing[r]
        file_path == Head(run.todo)
        path      == Join(run.prefix, file_path)
    IN
    /\ run.pc = "file"
    /\ run.todo # <<>>
    /\ \/ \* fs::File::open fails: the file is skipped
          /\ ing' = [ing EXCEPT ![r].todo = Tail(run.todo),
                                ![r].skipped = run.skipped \cup {file_path}]
          /\ UNCHANGED bucket
       \/ \* read_to_end or cookie.buffer fails
          /\ ing' = [ing EXCEPT ![r] = Abort(run, "read")]
          /\ UNCHANGED bucket
       \/ \E content \in contents :
            LET mime == mime_of(content, file_path)
                next(c) == [run EXCEPT
                    !.pc = "count", !.todo = Tail(run.todo),
                    !.cur = [path |-> path, file_path |-> file_path,
                             mime |-> mime, content |-> c],
                    !.body = (path :> content) @@ run.body,
                    !.file_list_with_mimes =
                        Append(run.file_list_with_mimes, <<mime, file_path>>)]
            IN  IF run.client
                THEN \/ \* put_object succeeds: the content is not kept
                        /\ bucket' = put_object(bucket, path, content)
                        /\ ing' = [ing EXCEPT ![r] = next(<<>>)]
                     \/ \* put_object fails: panic
                        /\ ing' = [ing EXCEPT ![r] = Abort(run, "upload")]
                        /\ UNCHANGED bucket
                ELSE /\ ing' = [ing EXCEPT ![r] = next(<<content>>)]
                     /\ UNCHANGED bucket
    /\ UNCHANGED <<files, env, now, mig, call>>

\* SELECT COUNT(*) FROM files WHERE path = $1, on the connection of the
\* transaction: the committed rows and the rows the transaction wrote
add_path_count(r) ==
    LET run == ing[r]
    IN
    /\ run.pc = "count"
    /\ \/ ing' = [ing EXCEPT
                    ![r].pc = "write",
                    ![r].count = IF \/ run.cur.path \in DOMAIN files
                                    \/ run.cur.path \in DOMAIN run.staged
                                 THEN 1 ELSE 0]
       \/ ing' = [ing EXCEPT ![r] = Abort(run, "db")]
    /\ UNCHANGED <<files, bucket, env, now, mig, call>>

\* the row the INSERT or the UPDATE of a run writes for its current file
RowOf(run) ==
    [mime |-> run.cur.mime, date_updated |-> run.started,
     content |-> IF run.cur.content = <<>> THEN Marker ELSE run.cur.content[1]]

\* files.path is the primary key of the table: an INSERT of a key that a
\* committed row holds is refused
DuplicateKey(db, path) == path \in DOMAIN db

\* INSERT INTO files when the count was 0, UPDATE files otherwise
add_path_write(r) ==
    LET run  == ing[r]
        path == run.cur.path
        stage == [ing EXCEPT ![r].pc = "file", ![r].cur = NoFile,
                             ![r].staged = (path :> RowOf(run)) @@ run.staged]
    IN
    /\ run.pc = "write"
    /\ \/ \* INSERT: the key is free
          /\ run.count = 0
          /\ ~DuplicateKey(files, path)
          /\ ~LockedByOther(r, path)
          /\ ing' = stage
       \/ \* INSERT: a row with the key was committed since the count
          /\ run.count = 0
          /\ DuplicateKey(files, path)
          /\ ing' = [ing EXCEPT ![r] = Abort(run, "unique_violation")]
       \/ \* UPDATE: waits for the transaction that holds the row
          /\ run.count # 0
          /\ ~LockedByOther(r, path)
          /\ ing' = stage
       \/ \* the statement fails
          /\ ing' = [ing EXCEPT ![r] = Abort(run, "db")]
    /\ UNCHANGED <<files, bucket, env, now, mig, call>>

\* the table after a transaction that staged these rows commits
Commit(db, staged) == staged @@ db

\* trans.commit() after the last file, then the manifest is returned
add_path_commit(r) ==
    LET run == ing[r]
    IN
    /\ run.pc = "file"
    /\ run.todo = <<>>
    /\ \/ /\ files' = Commit(files, run.staged)
          /\ ing' = [ing EXCEPT
                       ![r].pc = "done",
                       ![r].ret = file_list_to_json(run.file_list_with_mimes)]
       \/ /\ ing' = [ing EXCEPT ![r] = Abort(run, "db")]
          /\ UNCHANGED files
    /\ UNCHANGED <<bucket, env, now, mig, call>>

\* the caller has the result; the connection is free again
add_path_return(r) ==
    /\ ing[r].pc \in {"done", "aborted"}
    /\ ing' = [ing EXCEPT ![r] = IdleRun]
    /\ UNCHANGED <<files, bucket, env, now, mig, call>>

\* ------------------------------------------------------------------------
\* move_to_s3

Min(a, b) == IF a < b THEN a ELSE b

\* the keys of the rows that SELECT ... WHERE content != E'in-s3' sees
Inline(db) == {k \in DOMAIN db : db[k].content # Marker}

\* the batch ends with a panic or an error: its transaction is dropped
AbortMove(e) == [mig EXCEPT !.pc = "aborted", !.err = e, !.marked = {}]

Paths(rows) == {row.path : row \in rows}

\* the transaction begins, the client is looked up (panic without one) and
\* up to n inline rows are selected, whichever the backend returns
move_to_s3_begin(n, snap) ==
    /\ mig.pc = "idle"
    /\ \/ /\ ~s3_client(env)
          /\ mig' = [IdleMove EXCEPT !.pc = "aborted", !.n = n, !.err = "no_client"]
       \/ /\ s3_client(env)
          /\ \E S \in SUBSET Inline(files) :
               /\ Cardinality(S) = Min(n, Cardinality(Inline(files)))
               /\ mig' = [IdleMove EXCEPT
                            !.pc = "run", !.n = n,
                            !.pre = IF snap
                                    THEN [files |-> files, bucket |-> bucket]
                                    ELSE NoSnap,
                            !.rows = {[path |-> k, mime |-> files[k].mime,
                                       content |-> files[k].content] : k \in S}]
       \/ /\ s3_client(env)
          /\ mig' = [IdleMove EXCEPT !.pc = "aborted", !.n = n, !.err = "db"]
    /\ UNCHANGED <<files, bucket, env, now, ing, call>>

\* one of the uploads of the batch ends
move_to_s3_put_keeping_sent ==
    /\ mig.pc = "run"
    /\ \E row \in mig.rows :
         /\ row.path \notin mig.sent
         /\ \/ /\ bucket' = put_object(bucket, row.path, row.content)
               /\ mig' = [mig EXCEPT !.sent = mig.sent \cup {row.path}]
               /\ UNCHANGED files
            \/ /\ mig' = AbortMove("upload")
               /\ files' = [k \in DOMAIN files |->
                              IF k \in mig.sent
                              THEN [files[k] EXCEPT !.content = Marker]
                              ELSE files[k]]
               /\ UNCHANGED bucket
    /\ UNCHANGED <<env, now, ing, call>>
move_to_s3_put ==
    /\ mig.pc = "run"
    /\ \E row \in mig.rows :
         /\ row.path \notin mig.sent
         /\ \/ /\ bucket' = put_object(bucket, row.path, row.content)
               /\ mig' = [mig EXCEPT !.sent = mig.sent \cup {row.path}]
            \/ \* the upload fails: panic
               /\ mig' = AbortMove("upload")
               /\ UNCHANGED bucket
    /\ UNCHANGED <<files, env, now, ing, call>>

\* every upload succeeded: UPDATE files SET content = E'in-s3' WHERE path = $1
move_to_s3_update ==
    /\ mig.pc = "run"
    /\ mig.sent = Paths(mig.rows)
    /\ \E path \in mig.sent \ mig.marked :
         \/ /\ \A r \in Runs : ~(InTxn(ing[r]) /\ path \in DOMAIN ing[r].staged)
            /\ mig' = [mig EXCEPT !.marked = mig.marked \cup {path}]
         \/ mig' = AbortMove("db")
    /\ UNCHANGED <<files, bucket, env, now, ing, call>>

\* the table after the transaction of a batch that updated these rows commits
MarkNone(db, marked) == db
MarkAll(db, marked) ==
    [k \in DOMAIN db |-> [db[k] EXCEPT !.content = Marker]]
MarkAndStamp(db, marked) ==
    [k \in DOMAIN db |->
        IF k \in marked
        THEN [db[k] EXCEPT !.content = Marker, !.date_updated = now + 1]
        ELSE db[k]]
Mark(db, marked) ==
    [k \in DOMAIN db |->
        IF k \in marked THEN [db[k] EXCEPT !.content = Marker] ELSE db[k]]

\* trans.commit()
move_to_s3_commit ==
    /\ mig.pc = "run"
    /\ mig.sent = Paths(mig.rows)
    /\ mig.marked = mig.sent
    /\ \/ /\ files' = Mark(files, mig.marked)
          /\ mig' = [mig EXCEPT !.pc = "done"]
       \/ /\ mig' = AbortMove("db")
          /\ UNCHANGED files
    /\ UNCHANGED <<bucket, env, now, ing, call>>

move_to_s3_return ==
    /\ mig.pc \in {"done", "aborted"}
    /\ mig' = IdleMove
    /\ UNCHANGED <<files, bucket, env, now, ing, call>>

\* ------------------------------------------------------------------------
\* Specifications

\* every operation on its own connection, all at once
Next ==
    \/ SetEnv
    \/ \E r \in Runs : add_path_begin(r, FALSE, Prefixes)
    \/ \E r \in Runs : add_path_file(r, Bytes)
    \/ \E r \in Runs : add_path_count(r)
    \/ \E r \in Runs : add_path_write(r)
    \/ \E r \in Runs : add_path_commit(r)
    \/ \E r \in Runs : add_path_return(r)
    \/ \E n \in 0..MaxBatch : move_to_s3_begin(n, FALSE)
    \/ move_to_s3_put
    \/ move_to_s3_update
    \/ move_to_s3_commit
    \/ move_to_s3_return

Spec == Init /\ [][Next]_vars

\* one operation at a time: an operation begins when every other has returned
NextSeq ==
    \/ SetEnv
    \/ AllIdle /\ add_path_begin("r1", TRUE, {<<"a">>})
    \/ add_path_file("r1", Bytes)
    \/ add_path_count("r1")
    \/ add_path_write("r1")
    \/ add_path_commit("r1")
    \/ add_path_return("r1")
    \/ AllIdle /\ \E n \in 0..MaxBatch : move_to_s3_begin(n, TRUE)
    \/ move_to_s3_put
    \/ move_to_s3_update
    \/ move_to_s3_commit
    \/ move_to_s3_return

SpecSeq == Init /\ [][NextSeq]_vars

\* the store an earlier run left behind at time 0: nothing, or the empty
\* file a/x.css, inline or offloaded
OldKey == Join(<<"a">>, <<"x.css">>)
OldRow(content) ==
    [mime |-> mime_of("", <<"x.css">>), date_updated |-> 0, content |-> content]

InitIngest ==
    /\ \E old \in {"none", "inline", "offloaded"} :
         /\ files = IF old = "none" THEN Empty
                    ELSE OldKey :> OldRow(IF old = "inline" THEN "" ELSE Marker)
         /\ bucket = IF old = "offloaded" THEN OldKey :> "" ELSE Empty
    /\ env \in BOOLEAN
    /\ now = 0
    /\ ing = [r \in Runs |-> IdleRun]
    /\ mig = IdleMove
    /\ call = NoCall

\* two ingestions at once, one on each connection, and no migration; the
\* environment changes until both have read it
NextIngest ==
    \/ (\E r \in Runs : ing[r].pc = "idle") /\ SetEnv
    \/ \E r \in Runs : add_path_begin(r, TRUE, Prefixes)
    \/ \E r \in Runs : add_path_file(r, {"", Marker})
    \/ \E r \in Runs : add_path_count(r)
    \/ \E r \in Runs : add_path_write(r)
    \/ \E r \in Runs : add_path_commit(r)

SpecIngest == InitIngest /\ [][NextIngest]_vars

\* one ingestion and one batch of the migration at once,
\* over a store that an earlier run may have written; the environment
\* changes until both have read it
NextRace ==
    \/ (ing["r1"].pc = "idle" \/ mig.pc = "idle") /\ SetEnv
    \/ add_path_begin("r1", TRUE, Prefixes)
    \/ add_path_file("r1", {"<p>"})
    \/ add_path_count("r1")
    \/ add_path_write("r1")
    \/ add_path_commit("r1")
    \/ \E n \in 1..MaxBatch : move_to_s3_begin(n, TRUE)
    \/ move_to_s3_put
    \/ move_to_s3_update
    \/ move_to_s3_commit

SpecRace == InitIngest /\ [][NextRace]_vars

\* a store of inline rows that relational-only ingestions left at time 0:
\* for every key no row, or a row with the bytes of its file
InitMove ==
    /\ \E S \in SUBSET Keys : \E body \in [S -> {"", "<p>"}] :
         files = [k \in S |->
                    [mime |-> mime_of(body[k], <<k[Len(k)]>>), date_updated |-> 0,
                     content |-> body[k]]]
    /\ bucket = Empty
    /\ env = TRUE
    /\ now = 0
    /\ ing = [r \in Runs |-> IdleRun]
    /\ mig = IdleMove
    /\ call = NoCall

\* batch after batch of at least one row, with a client, no ingestion
\* beside them, and no upload and no statement that fails
NextMove ==
    \/ (\E n \in 1..MaxBatch : move_to_s3_begin(n, TRUE)) /\ mig'.pc = "run"
    \/ move_to_s3_put /\ mig'.pc = "run"
    \/ move_to_s3_update /\ mig'.pc = "run"
    \/ move_to_s3_commit /\ mig'.pc = "done"
    \/ move_to_s3_return

\* a batch that can take its next step takes it, and a batch that has
\* returned is followed by another
SpecMove == InitMove /\ [][NextMove]_vars /\ WF_vars(NextMove)

\* the classification of one file, alone: any sniffed type, any extension
InitClassify ==
    /\ files = Empty
    /\ bucket = Empty
    /\ env = FALSE
    /\ now = 0
    /\ ing = [r \in Runs |-> IdleRun]
    /\ mig = IdleMove
    /\ \E mime \in SniffedTypes, e \in Extensions :
         call = [pc |-> "called", mime |-> mime, e |-> e, ret |-> ""]

\* the block that computes the stored mime runs
classify_return ==
    /\ call.pc = "called"
    /\ call' = [call EXCEPT !.pc = "returned", !.ret = classify(call.mime, call.e)]
    /\ UNCHANGED <<files, bucket, env, now, ing, mig>>

SpecClassify == InitClassify /\ [][classify_return]_vars

\* the enumeration of one path of one tree, alone: any tree, any order of
\* the entries, any path of the tree or just outside it
InitList ==
    /\ files = Empty
    /\ bucket = Empty
    /\ env = FALSE
    /\ now = 0
    /\ ing = [r \in Runs |-> IdleRun]
    /\ mig = IdleMove
    /\ \E fs \in Trees(MaxEntries), order \in Orders(Names) :
         \E path \in DOMAIN fs \cup Slots(fs) :
            call = [pc |-> "called", fs |-> fs, order |-> order, path |-> path,
                    ret |-> Err("")]

get_file_list_return ==
    /\ call.pc = "called"
    /\ call' = [call EXCEPT !.pc = "returned",
                            !.ret = get_file_list_in(call.fs, call.order, call.path)]
    /\ UNCHANGED <<files, bucket, env, now, ing, mig>>

SpecList == InitList /\ [][get_file_list_return]_vars

\* ------------------------------------------------------------------------
\* Properties

\* what get_path returns for a key right now, with or without a client
Get(aws_key, path) == get_path(files, bucket, aws_key, path)

\* what get_path returned for a key when a run with this snapshot began
GetBefore(pre, aws_key, path) == get_path(pre.files, pre.bucket, aws_key, path)

\* the blob a finished run put under a key: the mime and the timestamp of
\* the row it wrote, the bytes it read from the file
PutBy(run, path) ==
    Blob(path, run.staged[path].mime, run.staged[path].date_updated,
         run.body[path])

\* C1: once an ingestion has committed and nothing else has written since,
\* get_path in the mode of that ingestion returns, for every key it put,
\* the mime it stored and exactly the bytes it read, whatever the bytes.
C1_RoundTrip ==
    ing["r1"].pc = "done" =>
        \A path \in DOMAIN ing["r1"].body :
            Get(ing["r1"].client, path) = PutBy(ing["r1"], path)

\* C2: every committed row whose content is the marker has an object
\* under its key in the bucket.
C2_MarkedRowsHaveObject ==
    \A path \in DOMAIN files :
        files[path].content = Marker => path \in DOMAIN bucket

\* C3: after a batch in which an upload failed, every row of the table is
\* what it was when the batch began: same keys, same content, same mime,
\* same timestamp; no row changed state.
C3_FailedBatchChangesNothing ==
    (mig.pc = "aborted" /\ mig.err = "upload") => files = mig.pre.files

\* C3 happens: a batch of two rows, one uploaded, the other failed
C3_Witness ==
    /\ mig.pc = "aborted"
    /\ mig.err = "upload"
    /\ Cardinality(mig.rows) = 2
    /\ Cardinality(mig.sent) = 1

\* C4: a batch of size n that ran alone and committed, begun with k inline
\* rows, changed exactly min(n, k) rows, each from inline content to the
\* marker, and with object storage configured get_path returns for each of
\* them the blob it returned before the batch.
C4_SuccessfulBatch ==
    mig.pc = "done" =>
        LET before  == mig.pre.files
            k       == Cardinality(Inline(before))
            changed == {path \in DOMAIN files \cup DOMAIN before :
                           \/ path \notin DOMAIN before
                           \/ path \notin DOMAIN files
                           \/ files[path] # before[path]}
        IN  /\ Cardinality(changed) = Min(mig.n, k)
            /\ \A path \in changed :
                 /\ path \in DOMAIN before
                 /\ path \in DOMAIN files
                 /\ before[path].content # Marker
                 /\ files[path].content = Marker
                 /\ Get(TRUE, path).kind = "blob"
                 /\ Get(TRUE, path) = GetBefore(mig.pre, TRUE, path)

\* C4 happens: a committed batch of size 1 begun with 2 inline rows
C4_Witness ==
    /\ mig.pc = "done"
    /\ mig.n = 1
    /\ Cardinality(Inline(mig.pre.files)) = 2

\* C5: at every point of a batch that runs with no ingestion beside it,
\* get_path with object storage configured returns for every selected key
\* the blob it returned when the batch began: it does not fail, and its
\* payload is not the marker.
C5_ReadsDuringBatch ==
    mig.pc # "idle" =>
        \A row \in mig.rows :
            /\ Get(TRUE, row.path).kind = "blob"
            /\ Get(TRUE, row.path).content # Marker
            /\ Get(TRUE, row.path) = GetBefore(mig.pre, TRUE, row.path)

\* C5 happens: both rows of a batch are updated and the batch has not
\* committed yet
C5_Witness ==
    /\ mig.pc = "run"
    /\ Cardinality(mig.rows) = 2
    /\ mig.marked = Paths(mig.rows)

\* C6: after an ingestion that aborted, get_path returns for every key,
\* with or without a client, what it returned before the run began.
C6_AbortedRunInvisible ==
    ing["r1"].pc = "aborted" =>
        \A path \in Keys, aws_key \in BOOLEAN :
            Get(aws_key, path) = GetBefore(ing["r1"].pre, aws_key, path)

\* C7: once an ingestion has committed, get_path in the mode of that
\* ingestion returns, for every key it wrote that already had a row, the
\* mime and the bytes of this ingestion and not those of the earlier one.
C7_LastWriteWins ==
    ing["r1"].pc = "done" =>
        \A path \in DOMAIN ing["r1"].body \cap DOMAIN ing["r1"].pre.files :
            Get(ing["r1"].client, path) = PutBy(ing["r1"], path)

\* the row of a key in a table, as a sequence of none or one
RowAt(db, path) == IF path \in DOMAIN db THEN <<db[path]>> ELSE <<>>

\* C8: of two ingestions that run at once, neither is failed by the other:
\* a run aborts only on a read, upload or backend failure of its own.
C8_NeitherRunFails ==
    \A r \in Runs : ing[r].err # "unique_violation"

\* two prefixes are disjoint: neither lies under the other
Disjoint(p, q) == ~HasPrefix(p, q) /\ ~HasPrefix(q, p)

\* C9: a run stages rows and reads files only for keys that are its prefix
\* joined with a path of its own list, objects appear only under the prefix
\* of a run with a client, and once a run has committed beside a run with
\* a disjoint prefix, the rows under its prefix are those it would have left
\* running alone: the rows it began with, replaced by the rows it wrote.
C9_PrefixIsolation ==
    /\ \A r \in Runs :
         \A path \in DOMAIN ing[r].staged \cup DOMAIN ing[r].body :
            /\ HasPrefix(path, ing[r].prefix)
            /\ \E i \in 1..Len(ing[r].file_list) :
                 path = Join(ing[r].prefix, ing[r].file_list[i])
    /\ \A path \in DOMAIN bucket :
         \/ path = OldKey
         \/ \E r \in Runs : ing[r].client /\ HasPrefix(path, ing[r].prefix)
    /\ \A r \in Runs :
         (/\ ing[r].pc = "done"
          /\ \A o \in Runs \ {r} :
               ing[o].pc = "idle" \/ Disjoint(ing[o].prefix, ing[r].prefix))
         => \A path \in Keys :
               HasPrefix(path, ing[r].prefix) =>
                   RowAt(files, path) =
                       RowAt(Commit(ing[r].pre.files, ing[r].staged), path)

\* C9 happens: two runs with disjoint prefixes have both committed rows
C9_Witness ==
    /\ \A r \in Runs : ing[r].pc = "done" /\ ing[r].staged # Empty
    /\ Disjoint(ing["r1"].prefix, ing["r2"].prefix)

\* the files of a list that were not skipped, in list order
Kept(run) == SelectSeq(run.file_list, LAMBDA f : f \notin run.skipped)

\* the manifest of a committed run: one [mime, path] entry per file that
\* was not skipped, in list order, the mime being that of the row stored
\* under the file's key; and the run wrote a row for exactly these files
ManifestOfKept(run) ==
    /\ DOMAIN run.staged = {Join(run.prefix, Kept(run)[i]) : i \in 1..Len(Kept(run))}
    /\ Len(run.ret) = Len(Kept(run))
    /\ \A i \in 1..Len(Kept(run)) :
         run.ret[i] = <<files[Join(run.prefix, Kept(run)[i])].mime, Kept(run)[i]>>
    /\ \A f \in run.skipped, i \in 1..Len(run.ret) : run.ret[i][2] # f

\* C10, as stated: besides the manifest, the store holds no row for a
\* skipped file.
C10_NoRowForSkipped ==
    ing["r1"].pc = "done" =>
        /\ ManifestOfKept(ing["r1"])
        /\ \A f \in ing["r1"].skipped :
             Join(ing["r1"].prefix, f) \notin DOMAIN files

\* C10, amended: besides the manifest, the run wrote nothing for a skipped
\* file: the row and the object under its key are what they were when the
\* run began (none, when no earlier run stored the key).
C10_SkippedUntouched ==
    ing["r1"].pc = "done" =>
        /\ ManifestOfKept(ing["r1"])
        /\ \A f \in ing["r1"].skipped :
             LET path == Join(ing["r1"].prefix, f)
             IN  /\ RowAt(files, path) = RowAt(ing["r1"].pre.files, path)
                 /\ RowAt(bucket, path) = RowAt(ing["r1"].pre.bucket, path)

\* C10 happens: a run of two files committed, one skipped, one stored
C10_Witness ==
    /\ ing["r1"].pc = "done"
    /\ Cardinality(ing["r1"].skipped) = 1
    /\ Len(ing["r1"].ret) = 1

\* C11: get_path on a key that has no row returns none; on a row whose
\* content is the marker and whose object cannot be fetched (no object
\* under the key, the bucket out of reach, or no client) the call fails
\* (it panics): it returns no blob, and so never the marker as payload.
C11_RetrievalErrors ==
    \A path \in Keys, aws_key \in BOOLEAN, reachable \in BOOLEAN :
        LET got == get_path_from(files, bucket, aws_key, reachable, path)
        IN  /\ path \notin DOMAIN files => got = None
            /\ (/\ path \in DOMAIN files
                /\ files[path].content = Marker
                /\ \/ path \notin DOMAIN bucket
                   \/ ~reachable
                   \/ ~aws_key)
               => got = Panic

\* C11 happens: one row is marked and has its object (so that only the
\* client or the request can fail), another is marked and has none, and a
\* third key has no row
C11_Witness ==
    \E p, q, r \in Keys :
        /\ p \in DOMAIN files /\ files[p].content = Marker /\ p \in DOMAIN bucket
        /\ q \in DOMAIN files /\ files[q].content = Marker /\ q \notin DOMAIN bucket
        /\ r \notin DOMAIN files

\* C12: for every sniffed type and extension, the stored type is text/css
\* when the sniffed type is text/plain and the extension css,
\* application/javascript when the sniffed type is text/plain and the
\* extension js, and the sniffed type itself in every other case.
C12_Classification ==
    call.pc = "returned" =>
        call.ret = CASE call.mime = "text/plain" /\ call.e = "css" -> "text/css"
                     [] call.mime = "text/plain" /\ call.e = "js" ->
                            "application/javascript"
                     [] OTHER -> call.mime

\* C12 happens: a css file that does not sniff as plain text was classified
C12_Witness ==
    /\ call.pc = "returned"
    /\ call.e = "css"
    /\ call.mime = "text/html"
    /\ call.ret = "text/html"

\* the regular files of a tree beneath a path, at any depth
RegularBelow(fs, path) ==
    {p \in DOMAIN fs : fs[p] = "file" /\ Len(p) > Len(path) /\ HasPrefix(p, path)}

\* the directories that a walk from a path has to read: the path and every
\* directory beneath it that no unreadable directory hides
RECURSIVE Walked(_, _)
Walked(fs, path) ==
    {path} \cup
    (IF fs[path] = "unreadable" THEN {}
     ELSE UNION {Walked(fs, Append(path, x)) :
                    x \in {y \in Names : IsDir(fs, Append(path, y))}})

\* a list holds exactly the regular files beneath a path, each once, as
\* paths from that path
ExactlyBelow(list, fs, path) ==
    /\ \A i, j \in 1..Len(list) : list[i] = list[j] => i = j
    /\ \A i \in 1..Len(list) : list[i] # <<>>
    /\ {Join(path, list[i]) : i \in 1..Len(list)} = RegularBelow(fs, path)

\* what C13 says of a path that does not exist and of a regular file
EnumerationOfFile(c) ==
    /\ c.path \notin DOMAIN c.fs => ~c.ret.ok
    /\ (c.path \in DOMAIN c.fs /\ c.fs[c.path] = "file") =>
          c.ret = Ok(<<<<c.path[Len(c.path)]>>>>)

\* C13, as stated: get_file_list fails on a path that does not exist,
\* returns the file's own name for a regular file, and for a directory
\* returns exactly the regular files beneath it, each once, relative to it.
C13_Enumeration ==
    call.pc = "returned" =>
        /\ EnumerationOfFile(call)
        /\ IsDir(call.fs, call.path) =>
              call.ret.ok /\ ExactlyBelow(call.ret.files, call.fs, call.path)

\* C13, amended: for a directory it does so when the directory and every
\* directory the walk meets beneath it can be read; when one of them
\* cannot, the call fails and returns no list.
C13_EnumerationOfReadable ==
    call.pc = "returned" =>
        /\ EnumerationOfFile(call)
        /\ IsDir(call.fs, call.path) =>
              IF \A d \in Walked(call.fs, call.path) : call.fs[d] = "dir"
              THEN call.ret.ok /\ ExactlyBelow(call.ret.files, call.fs, call.path)
              ELSE ~call.ret.ok

\* C13 happens: a directory with a special entry and a directory that
\* holds a regular file was enumerated
C13_Witness ==
    /\ call.pc = "returned"
    /\ call.ret.ok
    /\ \E d, x, y \in Names :
         /\ call.path = <<d>>
         /\ x # y
         /\ call.fs[<<d>>] = "dir"
         /\ <<d, x>> \in DOMAIN call.fs /\ call.fs[<<d, x>>] = "special"
         /\ <<d, y>> \in DOMAIN call.fs /\ call.fs[<<d, y>>] = "dir"
         /\ call.ret.files = <<<<y, x>>>>

\* C14: the mode is decided once and not at every call: get_path called
\* after an ingestion has committed answers in the mode that ingestion ran
\* in, whatever the environment has become since, and no operation fails
\* for want of a client: without one, move_to_s3 runs on the table alone.
C14_ModeDecidedOnce ==
    /\ ing["r1"].pc = "done" =>
          \A path \in DOMAIN ing["r1"].body :
             Get(env, path) = Get(ing["r1"].client, path)
    /\ mig.err # "no_client"

\* C15: once an ingestion and a batch of the migration that ran at once
\* have both committed, get_path with object storage configured returns,
\* for every key the batch selected and the ingestion wrote, the bytes the
\* ingestion read together with the mime it stored: the batch has not put
\* back the bytes it selected.
C15_IngestionSurvivesMigration ==
    (ing["r1"].pc = "done" /\ mig.pc = "done") =>
        \A path \in Paths(mig.rows) \cap DOMAIN ing["r1"].body :
            Get(TRUE, path) = PutBy(ing["r1"], path)

\* C16: while an ingestion has not committed, get_path returns for every
\* key, with or without a client, what it returned before the run began
\* (the old bytes with the old mime, or nothing); once it has committed,
\* get_path in the mode of the run returns for every key it put the new
\* bytes with the new mime.
C16_IsolatedUntilCommit ==
    /\ InTxn(ing["r1"]) =>
          \A path \in Keys, aws_key \in BOOLEAN :
             Get(aws_key, path) = GetBefore(ing["r1"].pre, aws_key, path)
    /\ ing["r1"].pc = "done" =>
          \A path \in DOMAIN ing["r1"].body :
             ing["r1"].body[path] # Marker =>
                Get(ing["r1"].client, path) = PutBy(ing["r1"], path)

\* C17: a step of a batch of the migration, with or without an ingestion
\* beside it, inserts no row and deletes none, leaves the mime and the
\* timestamp of every row as they are, and changes the content of a row
\* only if the batch selected its key and the content was inline, and
\* then to the marker.
C17_MigrationFrame ==
    [][mig' # mig =>
        /\ DOMAIN files' = DOMAIN files
        /\ \A k \in DOMAIN files :
             /\ files'[k].mime = files[k].mime
             /\ files'[k].date_updated = files[k].date_updated
             /\ files'[k].content # files[k].content =>
                   /\ k \in Paths(mig.rows)
                   /\ files[k].content # Marker
                   /\ files'[k].content = Marker]_vars

\* C17 happens: a batch has committed that marked a row and left alone an
\* inline row it had not selected and a row that was offloaded already
C17_Witness ==
    /\ mig.pc = "done"
    /\ mig.marked # {}
    /\ \E k \in DOMAIN files \ Paths(mig.rows) : files[k].content # Marker
    /\ \E k \in DOMAIN mig.pre.files : mig.pre.files[k].content = Marker

\* C18: with n >= 1 and no failure, a batch that began with an inline row
\* and committed leaves fewer inline rows than it found; a batch that
\* began with none selects nothing, uploads nothing and commits the table
\* and the bucket as it found them; and batch after batch, the table comes
\* to hold no inline row and stays so.
C18_MigrationProgress ==
    /\ [](  (mig.pc = "done" /\ mig.n >= 1 /\ Inline(mig.pre.files) # {}) =>
              Cardinality(Inline(files)) < Cardinality(Inline(mig.pre.files)))
    /\ [](  (mig.pc \in {"run", "done"} /\ Inline(mig.pre.files) = {}) =>
              /\ mig.rows = {}
              /\ mig.sent = {}
              /\ files = mig.pre.files
              /\ bucket = mig.pre.bucket)
    /\ <>[](Inline(files) = {})

\* C18 happens: more rows than any batch takes were inline, and the batch
\* that marked the last of them has committed
C18_Witness ==
    /\ mig.pc = "done"
    /\ Cardinality(DOMAIN files) > MaxBatch
    /\ Inline(mig.pre.files) # {}
    /\ Inline(files) = {}

\* C19: whenever no operation is under way (each has committed, aborted or
\* returned), every object of the bucket has a row under its key.
C19_NoOrphanObjects ==
    (~InTxn(ing["r1"]) /\ mig.pc # "run") =>
        \A path \in DOMAIN bucket : path \in DOMAIN files

====
